---- MODULE Spec2Model ----
(***************************************************************************)
(* owned-singleton: the `Singleton` attribute (macros/src/lib.rs) and the  *)
(* `Singleton` trait (src/lib.rs).                                         *)
(*                                                                         *)
(* Four specifications over one set of variables:                          *)
(*   Spec      attribute invocations, one action per expansion             *)
(*   SpecIdent sequential calls of mk_ident, long runs of calls included   *)
(*   SpecConc  mk_ident called from several threads, step by step          *)
(*   SpecRun   the generated proxies at run time                           *)
(***************************************************************************)
EXTENDS Integers, Sequences, FiniteSets, TLC

VARIABLES
    CALL_COUNT,   \* mk_ident::CALL_COUNT, an AtomicUsize, as little-endian bytes
    last,         \* Spec: the latest invocation, <<>> or <<[input, args, parsed, out]>>
    calls,        \* SpecIdent: the recorded mk_ident calls
    repeats,      \* SpecIdent: how many long runs of unrecorded calls happened
    pc,           \* SpecConc: each thread's position inside mk_ident
    elapsed,      \* SpecConc: each thread's local `elapsed`
    count,        \* SpecConc: each thread's local `count`
    idents,       \* SpecConc: the identifiers returned so far, in order of return
    mem,          \* SpecRun: the `static mut #alias` cells, by alias
    proxies,      \* SpecRun: live proxy values, per declaration
    refs,         \* SpecRun: live `&'static mut` from unwrap(), per declaration
    news,         \* SpecRun: calls of `new()`, per declaration
    written,      \* SpecRun: the value last written and the path of the write, per declaration
    obs           \* SpecRun: the latest read, <<>> or <<[decl, path, value]>>

vars == <<CALL_COUNT, last, calls, repeats, pc, elapsed, count, idents,
          mem, proxies, refs, news, written, obs>>

identVars == <<calls, repeats>>
concVars == <<pc, elapsed, count, idents>>
runVars == <<mem, proxies, refs, news, written, obs>>

(***************************************************************************)
(* Bounds of the model.                                                    *)
(***************************************************************************)
MaxArgs == 3
MaxExpansions == 2
MaxRecorded == 3
MaxRepeats == 3
MaxThreadCalls == 3
NThreads == 2
MaxNew == 2
MaxValue == 2

(***************************************************************************)
(* Fixed-width unsigned integers as little-endian byte sequences.          *)
(***************************************************************************)
UsizeBytes == 8
U32Bytes == 4
U64Bytes == 8
SeedLen == 16

Byte == 0..255

\* x >> (i * 8), by i divisions (x is a natural number)
RECURSIVE Shr8(_, _)
Shr8(x, i) == IF i = 0 THEN x ELSE Shr8(x \div 256, i - 1)

\* the w low bytes of natural x: byte i is (x >> (i * 8)) & 0xFF
LeBytes(x, w) == [i \in 1..w |-> Shr8(x, i - 1) % 256]

\* carry into byte i of c + d
RECURSIVE Carry(_, _, _)
Carry(c, d, i) == IF i = 1 THEN 0 ELSE (c[i - 1] + d[i - 1] + Carry(c, d, i - 1)) \div 256

\* c + d modulo 256^Len(c)
WrappingAdd(c, d) == [i \in 1..Len(c) |-> (c[i] + d[i] + Carry(c, d, i)) % 256]

\* the value of a byte sequence (small values only)
RECURSIVE Value(_)
Value(c) == IF c = <<>> THEN 0 ELSE c[1] + 256 * Value(Tail(c))

\* `x as u32` for a usize x
AsU32(c) == SubSeq(c, 1, U32Bytes)

(***************************************************************************)
(* impl Parse for Args                                                     *)
(***************************************************************************)
Tokens == {"Send", "Sync", "Copy"}

ArgLists == UNION {[1..n -> Tokens] : n \in 0..MaxArgs}

NoError == [msg |-> "", span |-> 0]
Error(span, msg) == [msg |-> msg, span |-> span]

ArgsOk(send, sync) == [ok |-> TRUE, send |-> send, sync |-> sync, err |-> NoError]
ArgsErr(e) == [ok |-> FALSE, send |-> FALSE, sync |-> FALSE, err |-> e]

\* the `for ident in punctuated` loop from token i on; a span is the token's index
RECURSIVE ParseFrom(_, _, _, _)
ParseFrom(punctuated, i, send, sync) ==
    IF i > Len(punctuated) THEN ArgsOk(send, sync)
    ELSE IF punctuated[i] = "Send" THEN
        IF send THEN ArgsErr(Error(i, "this trait appears twice"))
        ELSE ParseFrom(punctuated, i + 1, TRUE, sync)
    ELSE IF punctuated[i] = "Sync" THEN
        IF sync THEN ArgsErr(Error(i, "this trait appears twice"))
        ELSE ParseFrom(punctuated, i + 1, send, TRUE)
    ELSE ArgsErr(Error(i, "expected one of: Send or Sync"))

\* faulty variant: the same loop with the Sync arm testing `send`
RECURSIVE ParseFromSyncTestsSend(_, _, _, _)
ParseFromSyncTestsSend(punctuated, i, send, sync) ==
    IF i > Len(punctuated) THEN ArgsOk(send, sync)
    ELSE IF punctuated[i] = "Send" THEN
        IF send THEN ArgsErr(Error(i, "this trait appears twice"))
        ELSE ParseFromSyncTestsSend(punctuated, i + 1, TRUE, sync)
    ELSE IF punctuated[i] = "Sync" THEN
        IF send THEN ArgsErr(Error(i, "this trait appears twice"))
        ELSE ParseFromSyncTestsSend(punctuated, i + 1, send, TRUE)
    ELSE ArgsErr(Error(i, "expected one of: Send or Sync"))

ParseArgsSyncTestsSend(input) == ParseFromSyncTestsSend(input, 1, FALSE, FALSE)

\* fn parse(input: ParseStream) -> parse::Result<Self>
ParseArgs(input) == ParseFrom(input, 1, FALSE, FALSE)

(***************************************************************************)
(* mk_ident                                                                *)
(***************************************************************************)
\* SystemTime::now().duration_since(UNIX_EPOCH): whole seconds and subsec_nanos
\* two consecutive instants
Clock == {[secs |-> 1541000000, nanos |-> 999999999], [secs |-> 1541000001, nanos |-> 0]}

Zero == [i \in 1..UsizeBytes |-> 0]
One == [i \in 1..UsizeBytes |-> IF i = 1 THEN 1 ELSE 0]

\* faulty variant: a load, the counter is not advanced
FetchAddLoadOnly(c) == c

\* CALL_COUNT.fetch_add(1, Ordering::SeqCst): the new value of the counter
FetchAdd(c) == WrappingAdd(c, One)

\* the three loops that fill `seed`; cnt is `count`, a u32
SeedOf(el, cnt) ==
    [i \in 1..SeedLen |->
        IF i <= U64Bytes THEN Shr8(el.secs, i - 1) % 256
        ELSE IF i <= U64Bytes + U32Bytes THEN Shr8(el.nanos, i - 1 - U64Bytes) % 256
        ELSE cnt[i - U64Bytes - U32Bytes]]

\* the counter bytes of a seed
SeedCount(seed) == SubSeq(seed, U64Bytes + U32Bytes + 1, SeedLen)

\* A name of the generated code: an identifier written in the source, or the
\* identifier SmallRng::from_seed(seed) yields.  The generator is deterministic,
\* so that identifier is a function of the seed; its 16 characters are not
\* computed here and identifiers of different seeds are kept apart.
SourceName(txt) == [txt |-> txt, seed |-> <<>>]
SmallRngIdent(seed) == [txt |-> "", seed |-> seed]

\* mk_ident with the clock reading el and the counter value c it fetched
MkIdent(el, c) == SmallRngIdent(SeedOf(el, AsU32(c)))

(***************************************************************************)
(* The Singleton attribute                                                 *)
(***************************************************************************)
Idents == {"FOO", "BAR"}

\* the annotated item: a `static [mut]` with or without initializer, or a function
StaticInputs ==
    [kind : {"static"}, attrs : {<<"#[doc]">>}, vis : {"pub"}, mutability : BOOLEAN,
     ident : Idents, ty : {"u32"}, expr : {<<0>>}]
    \cup {[kind |-> "static", attrs |-> <<>>, vis |-> "", mutability |-> TRUE,
            ident |-> "BAR", ty |-> "u32", expr |-> <<>>]}
FnInput ==
    [kind |-> "fn", attrs |-> <<>>, vis |-> "", mutability |-> FALSE,
     ident |-> "FOO", ty |-> "", expr |-> <<>>]
Inputs == StaticInputs \cup {FnInput}

\* parse_macro_input!(input as ItemStatic): syn accepts `static [mut] IDENT: TY = EXPR;`
ParseItemStatic(input) ==
    IF input.kind # "static" THEN [ok |-> FALSE, err |-> Error(0, "expected static")]
    ELSE IF input.expr = <<>> THEN [ok |-> FALSE, err |-> Error(0, "expected =")]
    ELSE [ok |-> TRUE, err |-> NoError]

\* fn check: nothing is checked
Check(item) == [ok |-> TRUE, err |-> NoError]

\* e.to_compile_error(): the diagnostic alone
CompileError(e) == [diag |-> <<e>>, items |-> <<>>]

Impl(trait, ident, info) ==
    [kind |-> "impl", name |-> SourceName(ident), trait |-> trait, info |-> info]

\* faulty variant: the storage keeps the declaration's name
BaseItemsKeepName(item, alias) ==
    << [kind |-> "static", name |-> SourceName(item.ident), trait |-> "",
        info |-> [attrs |-> item.attrs, export_name |-> <<item.ident, alias>>,
                  mutability |-> TRUE, ty |-> item.ty, expr |-> item.expr]],
       [kind |-> "struct", name |-> SourceName(item.ident), trait |-> "",
        info |-> [vis |-> item.vis, field |-> alias, fieldty |-> "NotSendOrSync"]],
       Impl("Singleton", item.ident,
            [Type |-> item.ty, new |-> alias, get |-> SourceName(item.ident)]),
       Impl("Deref", item.ident, [Target |-> item.ty, deref |-> SourceName(item.ident)]),
       Impl("StableDeref", item.ident, <<>>) >>

\* the first quote!: storage, proxy struct, Singleton, Deref and StableDeref
BaseItems(item, alias) ==
    << [kind |-> "static", name |-> alias, trait |-> "",
        info |-> [attrs |-> item.attrs, export_name |-> <<item.ident, alias>>,
                  mutability |-> TRUE, ty |-> item.ty, expr |-> item.expr]],
       [kind |-> "struct", name |-> SourceName(item.ident), trait |-> "",
        info |-> [vis |-> item.vis, field |-> alias, fieldty |-> "NotSendOrSync"]],
       Impl("Singleton", item.ident, [Type |-> item.ty, new |-> alias, get |-> alias]),
       Impl("Deref", item.ident, [Target |-> item.ty, deref |-> alias]),
       Impl("StableDeref", item.ident, <<>>) >>

\* faulty variant: the Send impl under the Sync flag
SendItemsIfSync(args, item) ==
    IF args.sync THEN <<Impl("Send", item.ident, [where |-> <<item.ty, "Send">>])>> ELSE <<>>

\* if args.send
SendItems(args, item) ==
    IF args.send THEN <<Impl("Send", item.ident, [where |-> <<item.ty, "Send">>])>> ELSE <<>>

\* if args.sync
SyncItems(args, item) ==
    IF args.sync THEN <<Impl("Sync", item.ident, [where |-> <<item.ty, "Sync">>])>> ELSE <<>>

\* faulty variant: DerefMut whatever the mutability
DerefMutItemsAlways(item, alias) ==
    <<Impl("DerefMut", item.ident, [deref_mut |-> alias])>>

\* if item.mutability.is_some()
DerefMutItems(item, alias) ==
    IF item.mutability
    THEN <<Impl("DerefMut", item.ident, [deref_mut |-> alias])>>
    ELSE <<>>

\* the body of Singleton once item and args are parsed and checked
Emit(args, item, alias) ==
    [diag |-> <<>>,
     items |-> BaseItems(item, alias) \o SendItems(args, item) \o SyncItems(args, item)
               \o DerefMutItems(item, alias)]

\* faulty variant: the storage is emitted beside the diagnostic
ArgsFailurePartial(item, e) ==
    [diag |-> <<e>>,
     items |-> <<[kind |-> "static", name |-> SourceName(item.ident), trait |-> "",
                  info |-> <<>>]>>]

\* let args = parse_macro_input!(args as Args): on Err, the compile error is returned
ArgsFailure(item, e) == CompileError(e)

\* pub fn Singleton(args, input): the output, the parsed arguments (if it came to
\* parsing them) and the counter afterwards
Expand(args, input, now, c) ==
    LET item == ParseItemStatic(input)
        a == ParseArgs(args)
        chk == Check(input)
    IN  IF ~item.ok THEN [parsed |-> <<>>, out |-> CompileError(item.err), counter |-> c]
        ELSE IF ~a.ok THEN [parsed |-> <<a>>, out |-> ArgsFailure(input, a.err), counter |-> c]
        ELSE IF ~chk.ok THEN [parsed |-> <<a>>, out |-> CompileError(chk.err), counter |-> c]
        ELSE [parsed |-> <<a>>, out |-> Emit(a, input, MkIdent(now, c)),
              counter |-> FetchAdd(c)]

Singleton(args, input, now) ==
    /\ Value(CALL_COUNT) < MaxExpansions
    /\ LET r == Expand(args, input, now, CALL_COUNT)
       IN  /\ last' = <<[input |-> input, args |-> args, now |-> now, before |-> CALL_COUNT,
                         parsed |-> r.parsed, out |-> r.out]>>
           /\ CALL_COUNT' = r.counter
    /\ UNCHANGED <<identVars, concVars, runVars>>

(***************************************************************************)
(* mk_ident called again and again in one process                          *)
(***************************************************************************)
\* one recorded call: n is the value of CALL_COUNT the call fetched, which numbers
\* the calls of the process
MkIdentCall(now) ==
    /\ Cardinality(calls) < MaxRecorded
    /\ calls' = calls \cup {[n |-> CALL_COUNT, now |-> now,
                             seed |-> SeedOf(now, AsU32(CALL_COUNT)),
                             ident |-> MkIdent(now, CALL_COUNT)]}
    /\ CALL_COUNT' = FetchAdd(CALL_COUNT)
    /\ UNCHANGED <<last, repeats, concVars, runVars>>

\* 2^31 - 1, as a usize
RunLength == [i \in 1..UsizeBytes |-> IF i < U32Bytes THEN 255 ELSE IF i = U32Bytes THEN 127 ELSE 0]

\* a run of 2^31 - 1 calls whose identifiers are not recorded: fetch_add(1) that
\* many times
MkIdentRun ==
    /\ repeats < MaxRepeats
    /\ repeats' = repeats + 1
    /\ CALL_COUNT' = WrappingAdd(CALL_COUNT, RunLength)
    /\ UNCHANGED <<last, calls, concVars, runVars>>

(***************************************************************************)
(* mk_ident on several threads, one step per statement that touches shared *)
(* state                                                                   *)
(***************************************************************************)
Threads == 1..NThreads

Started == Len(idents) + Cardinality({t \in Threads : pc[t] # "idle"})

\* let elapsed = SystemTime::now()...
ReadClock(t, now) ==
    /\ pc[t] = "idle"
    /\ Started < MaxThreadCalls
    /\ elapsed' = [elapsed EXCEPT ![t] = now]
    /\ pc' = [pc EXCEPT ![t] = "fetch"]
    /\ UNCHANGED <<CALL_COUNT, last, identVars, count, idents, runVars>>

\* let count = CALL_COUNT.fetch_add(1, Ordering::SeqCst) as u32
Fetch(t) ==
    /\ pc[t] = "fetch"
    /\ count' = [count EXCEPT ![t] = AsU32(CALL_COUNT)]
    /\ CALL_COUNT' = FetchAdd(CALL_COUNT)
    /\ pc' = [pc EXCEPT ![t] = "seed"]
    /\ UNCHANGED <<last, identVars, elapsed, idents, runVars>>

\* the seed, the generator and the identifier: thread-local
Return(t) ==
    /\ pc[t] = "seed"
    /\ idents' = Append(idents, [thread |-> t, count |-> count[t],
                                 ident |-> SmallRngIdent(SeedOf(elapsed[t], count[t]))])
    /\ pc' = [pc EXCEPT ![t] = "idle"]
    /\ UNCHANGED <<CALL_COUNT, last, identVars, elapsed, count, runVars>>

(***************************************************************************)
(* The generated code at run time                                          *)
(***************************************************************************)
BuildTime == [secs |-> 1541000000, nanos |-> 999999999]

\* the program: #[Singleton] static mut FOO: u32 = 0; #[Singleton] static BAR: u32 = 1;
Declared(d) ==
    [kind |-> "static", attrs |-> <<"#[doc]">>, vis |-> "", mutability |-> (d = "FOO"),
     ident |-> d, ty |-> "u32", expr |-> IF d = "FOO" THEN <<0>> ELSE <<1>>]

\* its expansion, FOO first
Unit(d) == Expand(<<>>, Declared(d), BuildTime, IF d = "FOO" THEN Zero ELSE One).out

ItemsOf(u, kind, trait) ==
    {i \in 1..Len(u.items) : u.items[i].kind = kind /\ u.items[i].trait = trait}
HasImpl(u, trait) == ItemsOf(u, "impl", trait) # {}
TheItem(u, kind, trait) == u.items[CHOOSE i \in ItemsOf(u, kind, trait) : TRUE]

\* the places the generated functions name
GetPlace(u) == TheItem(u, "impl", "Singleton").info.get
DerefPlace(u) == TheItem(u, "impl", "Deref").info.deref
DerefMutPlace(u) == TheItem(u, "impl", "DerefMut").info.deref_mut

\* faulty variant: a reference to the initializer, &#expr
DerefReadInitializer(u, m) == TheItem(u, "static", "").info.expr[1]

\* fn deref(&self) -> &Self::Target { unsafe { &#alias } }, then the read
DerefRead(u, m) == m[DerefPlace(u)]

\* fn unwrap(self): the reference is &mut *Self::get()
UnwrapTarget(u) == GetPlace(u)

\* faulty variant: unwrap(&self), the proxy stays
UnwrapKeepsProxy(n) == n

\* fn unwrap(self) takes the proxy by value: the proxies left of n
UnwrapConsumes(n) == n - 1

Values == 0..MaxValue

StaticNames == {TheItem(Unit(d), "static", "").name : d \in Idents}

\* a read, with the value the declaration holds by the writes so far
Read(d, path, v) == <<[decl |-> d, path |-> path, value |-> v, expected |-> written[d]]>>

\* unsafe fn new() -> Self: no check
New(d) ==
    /\ news[d] < MaxNew
    /\ news' = [news EXCEPT ![d] = @ + 1]
    /\ proxies' = [proxies EXCEPT ![d] = @ + 1]
    /\ UNCHANGED <<CALL_COUNT, last, identVars, concVars, mem, refs, written, obs>>

\* *foo
Deref(d) ==
    /\ proxies[d] > 0
    /\ obs' = Read(d, "deref", DerefRead(Unit(d), mem))
    /\ UNCHANGED <<CALL_COUNT, last, identVars, concVars, mem, proxies, refs, news, written>>

\* *foo = v, where DerefMut is implemented
DerefMut(d, v) ==
    /\ proxies[d] > 0
    /\ HasImpl(Unit(d), "DerefMut")
    /\ mem' = [mem EXCEPT ![DerefMutPlace(Unit(d))] = v]
    /\ written' = [written EXCEPT ![d] = [value |-> v, via |-> "deref_mut"]]
    /\ UNCHANGED <<CALL_COUNT, last, identVars, concVars, proxies, refs, news, obs>>

\* *FOO::get()
Get(d) ==
    /\ obs' = Read(d, "get", mem[GetPlace(Unit(d))])
    /\ UNCHANGED <<CALL_COUNT, last, identVars, concVars, mem, proxies, refs, news, written>>

\* let bar = foo.unwrap()
Unwrap(d) ==
    /\ proxies[d] > 0
    /\ proxies' = [proxies EXCEPT ![d] = UnwrapConsumes(@)]
    /\ refs' = [refs EXCEPT ![d] = Append(@, UnwrapTarget(Unit(d)))]
    /\ UNCHANGED <<CALL_COUNT, last, identVars, concVars, mem, news, written, obs>>

\* *bar
RefRead(d) ==
    /\ refs[d] # <<>>
    /\ obs' = Read(d, "unwrap", mem[refs[d][1]])
    /\ UNCHANGED <<CALL_COUNT, last, identVars, concVars, mem, proxies, refs, news, written>>

\* *bar = v
RefWrite(d, v) ==
    /\ refs[d] # <<>>
    /\ mem' = [mem EXCEPT ![refs[d][1]] = v]
    /\ written' = [written EXCEPT ![d] = [value |-> v, via |-> "unwrap"]]
    /\ UNCHANGED <<CALL_COUNT, last, identVars, concVars, proxies, refs, news, obs>>

\* the proxy goes out of scope
DropProxy(d) ==
    /\ proxies[d] > 0
    /\ proxies' = [proxies EXCEPT ![d] = @ - 1]
    /\ UNCHANGED <<CALL_COUNT, last, identVars, concVars, mem, refs, news, written, obs>>

(***************************************************************************)
(* Specifications                                                          *)
(***************************************************************************)
Init ==
    /\ CALL_COUNT = Zero
    /\ last = <<>>
    /\ calls = {}
    /\ repeats = 0
    /\ pc = [t \in Threads |-> "idle"]
    /\ elapsed = [t \in Threads |-> BuildTime]
    /\ count = [t \in Threads |-> AsU32(Zero)]
    /\ idents = <<>>
    /\ mem = [a \in StaticNames |->
                LET d == CHOOSE x \in Idents : TheItem(Unit(x), "static", "").name = a
                IN  TheItem(Unit(d), "static", "").info.expr[1]]
    /\ proxies = [d \in Idents |-> 0]
    /\ refs = [d \in Idents |-> <<>>]
    /\ news = [d \in Idents |-> 0]
    /\ written = [d \in Idents |-> [value |-> Declared(d).expr[1], via |-> "init"]]
    /\ obs = <<>>

Next == \E args \in ArgLists, input \in Inputs, now \in Clock : Singleton(args, input, now)

Spec == Init /\ [][Next]_vars

NextIdent ==
    \/ \E now \in Clock : MkIdentCall(now)
    \/ MkIdentRun

SpecIdent == Init /\ [][NextIdent]_vars

NextConc ==
    \/ \E t \in Threads, now \in Clock : ReadClock(t, now)
    \/ \E t \in Threads : Fetch(t)
    \/ \E t \in Threads : Return(t)

SpecConc == Init /\ [][NextConc]_vars

NextRun ==
    \/ \E d \in Idents : New(d)
    \/ \E d \in Idents : Deref(d)
    \/ \E d \in Idents, v \in Values : DerefMut(d, v)
    \/ \E d \in Idents : Get(d)
    \/ \E d \in Idents : Unwrap(d)
    \/ \E d \in Idents : RefRead(d)
    \/ \E d \in Idents, v \in Values : RefWrite(d, v)
    \/ \E d \in Idents : DropProxy(d)

SpecRun == Init /\ [][NextRun]_vars

(***************************************************************************)
(* Properties                                                              *)
(***************************************************************************)
Recognized == {"Send", "Sync"}
Range(f) == {f[i] : i \in DOMAIN f}

\* token i is unrecognized, or repeats an earlier token
Offending(args, i) == args[i] \notin Recognized \/ \E j \in 1..(i - 1) : args[j] = args[i]
ValidArgs(args) == \A i \in 1..Len(args) : ~Offending(args, i)
FirstOffending(args) ==
    CHOOSE i \in 1..Len(args) : Offending(args, i) /\ \A j \in 1..(i - 1) : ~Offending(args, j)

ValidShape(input) == input.kind = "static" /\ input.expr # <<>>
Accepted(l) == ValidShape(l.input) /\ ValidArgs(l.args)

\* C1: parsing the arguments succeeds exactly when every token is Send or Sync and
\* none is repeated; the flags are then true exactly for the tokens present;
\* otherwise the error is on the first offending token, "this trait appears twice"
\* for a repeated Send or Sync and "expected one of: Send or Sync" for any other.
C1_ParseArgs ==
    \A k \in 1..Len(last) :
        LET l == last[k] IN
        l.parsed # <<>> =>
            LET a == l.parsed[1] IN
            /\ a.ok <=> ValidArgs(l.args)
            /\ a.ok => /\ a.send <=> "Send" \in Range(l.args)
                       /\ a.sync <=> "Sync" \in Range(l.args)
            /\ ~a.ok =>
                LET i == FirstOffending(l.args) IN
                /\ a.err.span = i
                /\ a.err.msg = IF l.args[i] \in Recognized
                               THEN "this trait appears twice"
                               ELSE "expected one of: Send or Sync"
                /\ l.out.diag = <<a.err>>

C1_Witness ==
    /\ last # <<>>
    /\ last[1].args = <<"Sync", "Send", "Sync">>
    /\ last[1].parsed # <<>>
    /\ last[1].parsed[1].err = Error(3, "this trait appears twice")

\* C2: when the item is not a static with an initializer, or the arguments are
\* invalid, the output is the diagnostic alone; when both are valid the output has
\* no diagnostic and holds the storage, the proxy struct and the Singleton, Deref
\* and StableDeref impls.
C2_AllOrNothing ==
    \A k \in 1..Len(last) :
        LET l == last[k] IN
        /\ ~Accepted(l) => Len(l.out.diag) = 1 /\ l.out.items = <<>>
        /\ Accepted(l) =>
            /\ l.out.diag = <<>>
            /\ ItemsOf(l.out, "static", "") # {}
            /\ ItemsOf(l.out, "struct", "") # {}
            /\ \A trait \in {"Singleton", "Deref", "StableDeref"} : HasImpl(l.out, trait)

C2_Witness ==
    /\ last # <<>>
    /\ last[1].input.kind = "static"
    /\ last[1].input.expr # <<>>
    /\ last[1].args = <<"Send", "Copy">>
    /\ last[1].out.items = <<>>
    /\ Len(last[1].out.diag) = 1

C4_SendSyncOptIn ==
    \A k \in 1..Len(last) :
        LET l == last[k] IN
        Accepted(l) =>
            \A trait \in Recognized :
                /\ HasImpl(l.out, trait) <=> trait \in Range(l.args)
                /\ Cardinality(ItemsOf(l.out, "impl", trait)) <= 1
                /\ HasImpl(l.out, trait) =>
                       TheItem(l.out, "impl", trait).info.where = <<l.input.ty, trait>>

C4_Witness ==
    /\ last # <<>>
    /\ Accepted(last[1])
    /\ last[1].args = <<"Send">>
    /\ ~last[1].input.mutability
    /\ HasImpl(last[1].out, "Send")
    /\ ~HasImpl(last[1].out, "Sync")

\* C5: an accepted declaration gets exactly one struct, named as the declaration,
\* and exactly one static, named by the identifier mk_ident returned and not as the
\* declaration.
C5_OneProxyOneStorage ==
    \A k \in 1..Len(last) :
        LET l == last[k] IN
        Accepted(l) =>
            /\ Cardinality(ItemsOf(l.out, "struct", "")) = 1
            /\ TheItem(l.out, "struct", "").name = SourceName(l.input.ident)
            /\ Cardinality(ItemsOf(l.out, "static", "")) = 1
            /\ TheItem(l.out, "static", "").name = MkIdent(l.now, l.before)
            /\ TheItem(l.out, "static", "").name # SourceName(l.input.ident)

C5_Witness ==
    /\ last # <<>>
    /\ Accepted(last[1])
    /\ last[1].input.ident = "BAR"
    /\ last[1].before = One
    /\ TheItem(last[1].out, "struct", "").name = SourceName("BAR")

\* C6: the identifiers of any two calls of mk_ident in one process differ.
C6_IdentsDistinct ==
    \A a, b \in calls : a.n # b.n => a.ident # b.ident

\* C10: the counter bytes of the seeds of any two calls of mk_ident in one process
\* differ, and so do the seeds.
C10_SeedCountsDistinct ==
    \A a, b \in calls :
        a.n # b.n => SeedCount(a.seed) # SeedCount(b.seed) /\ a.seed # b.seed

\* the calls that have fetched their counter value: returned, or about to build
\* the seed
Fetched ==
    {[thread |-> idents[i].thread, at |-> i, count |-> idents[i].count] : i \in 1..Len(idents)}
    \cup {[thread |-> t, at |-> 0, count |-> count[t]] : t \in {x \in Threads : pc[x] = "seed"}}

\* C7: under every interleaving no two calls of mk_ident fetch the same counter
\* value; when k calls have fetched, the counter is k and the values fetched are
\* exactly 0..k-1.
C7_CounterValuesUnique ==
    /\ \A a, b \in Fetched : a # b => a.count # b.count
    /\ Value(CALL_COUNT) = Cardinality(Fetched)
    /\ {Value(a.count) : a \in Fetched} = 0..(Cardinality(Fetched) - 1)

C7_Witness ==
    /\ Len(idents) = 3
    /\ idents[1].thread # idents[2].thread
    /\ Value(idents[1].count) = 1
    /\ Value(idents[2].count) = 0
    /\ elapsed[1] = elapsed[2]

\* C8: a read through the proxy, through the pointer of get() or through the
\* reference of unwrap() yields the value last written, the initializer when
\* nothing was written.
C8_OneCell ==
    \A k \in 1..Len(obs) : obs[k].value = obs[k].expected.value

C8_Witness ==
    /\ obs # <<>>
    /\ obs[1].decl = "FOO"
    /\ obs[1].path = "unwrap"
    /\ obs[1].expected = [value |-> 1, via |-> "deref_mut"]
    /\ news["FOO"] = 1

\* C9: while new() was called at most once for a declaration, at most one handle to
\* its storage exists: the proxy, or the reference unwrap() made of it.
C9_OneHandle ==
    \A d \in Idents : news[d] <= 1 => proxies[d] + Len(refs[d]) <= 1

C9_Witness ==
    /\ news["FOO"] = 1
    /\ proxies["FOO"] = 0
    /\ Len(refs["FOO"]) = 1

====
